---------------------------- MODULE Spec2Model ----------------------------
(***************************************************************************)
(* Model of ncg_optimizer/fr.py: the Fletcher-Reeves conjugate-gradient    *)
(* optimizer FR (constructor validation, Exact, step).                     *)
(*                                                                         *)
(* Numbers.  A float is modelled as an extended rational [n, d]:           *)
(*   d > 0      the rational n/d in lowest terms,                          *)
(*   d = 0      n = 1 is +inf, n = -1 is -inf, n = 0 is NaN.               *)
(* Arithmetic follows IEEE-754 on these values (x/0 = inf, 0/0 = NaN,      *)
(* inf*0 = NaN, comparisons with NaN are false); rounding and the sign of  *)
(* zero are not modelled.  A square root that is not rational is rounded   *)
(* down to the denominator of its argument.                                *)
(***************************************************************************)
EXTENDS Integers, Sequences, FiniteSets, TLC

VARIABLES
    ctor,          \* outcome of FR.__init__: "none", "ok" or "ValueError"
    warned,        \* warnings.warn was called by the constructor
    args,          \* the arguments the constructor was called with
    defaults,      \* self.defaults (the validated configuration)
    param_groups,  \* self.param_groups: sequence of sequences of parameter ids
    p,             \* p.data of every parameter
    state,         \* self.state: per-parameter dict
    objective,     \* matrix A of the quadratic objective (<<>> when the closure is opaque)
    calls,         \* number of step() calls made
    nupd,          \* per parameter, number of executions of p.data.add_ (line 213)
    last           \* record of the most recent step() call (inputs, result, pre-state)

vars == <<ctor, warned, args, defaults, param_groups, p, state, objective, calls, nupd, last>>

---------------------------------------------------------------------------
(* Bounds *)
MaxCalls == 2
MaxQuadCalls == 2

---------------------------------------------------------------------------
(* Extended rational arithmetic *)

Sign(x) == IF x > 0 THEN 1 ELSE IF x < 0 THEN -1 ELSE 0

Abs(x) == IF x < 0 THEN -x ELSE x

RECURSIVE GCD(_, _)
GCD(a, b) == IF b = 0 THEN a ELSE GCD(b, a % b)

Q(n, d) ==
    IF d = 0 THEN [n |-> Sign(n), d |-> 0]
    ELSE LET g == GCD(Abs(n), Abs(d))
         IN  [n |-> (Sign(d) * n) \div g, d |-> Abs(d) \div g]

Int2Q(i) == [n |-> i, d |-> 1]

Zero == Int2Q(0)

One == Int2Q(1)

NaN == [n |-> 0, d |-> 0]

IsNaN(a) == a.d = 0 /\ a.n = 0

Neg(a) == [n |-> -a.n, d |-> a.d]

Add(a, b) ==
    IF IsNaN(a) \/ IsNaN(b) THEN NaN
    ELSE IF a.d = 0 /\ b.d = 0 THEN (IF a.n = b.n THEN a ELSE NaN)
    ELSE IF a.d = 0 THEN a
    ELSE IF b.d = 0 THEN b
    ELSE LET g == GCD(a.d, b.d)
         IN  Q(a.n * (b.d \div g) + b.n * (a.d \div g), a.d * (b.d \div g))

Mul(a, b) ==
    IF a.d = 0 \/ b.d = 0 THEN Q(a.n * b.n, 0)
    ELSE LET g1 == GCD(Abs(a.n), b.d)
             g2 == GCD(Abs(b.n), a.d)
         IN  Q((a.n \div g1) * (b.n \div g2), (a.d \div g2) * (b.d \div g1))

Inv(b) == Q(b.d, b.n)

Div(a, b) == Mul(a, Inv(b))

Lt(a, b) ==
    IF IsNaN(a) \/ IsNaN(b) THEN FALSE
    ELSE IF a.d = 0 THEN a.n = -1 /\ ~(b.d = 0 /\ b.n = -1)
    ELSE IF b.d = 0 THEN b.n = 1
    ELSE a.n * b.d < b.n * a.d

Le(a, b) == Lt(a, b) \/ (~IsNaN(a) /\ ~IsNaN(b) /\ a = b)

RECURSIVE ISqrtBS(_, _, _)
ISqrtBS(n, lo, hi) ==
    IF lo >= hi THEN lo
    ELSE LET mid == (lo + hi + 1) \div 2
         IN  IF mid * mid <= n THEN ISqrtBS(n, mid, hi) ELSE ISqrtBS(n, lo, mid - 1)

ISqrt(n) == ISqrtBS(n, 0, IF n < 46340 THEN n ELSE 46340)

IsSquare(n) == ISqrt(n) * ISqrt(n) = n

Sqrt(a) ==
    IF a.d = 0 THEN (IF a.n = 1 THEN a ELSE NaN)
    ELSE IF a.n < 0 THEN NaN
    ELSE IF IsSquare(a.d) THEN Q(ISqrt(a.n), ISqrt(a.d))
    ELSE Q(ISqrt(a.n * a.d), a.d)

---------------------------------------------------------------------------
(* Tensors: a 1-D tensor is a sequence of numbers, a 2-D tensor a sequence *)
(* of rows.                                                                *)

Vec(ints) == [i \in 1..Len(ints) |-> Int2Q(ints[i])]

Mat(rows) == [i \in 1..Len(rows) |-> Vec(rows[i])]

VNeg(v) == [i \in 1..Len(v) |-> Neg(v[i])]

VAdd(u, v) == [i \in 1..Len(u) |-> Add(u[i], v[i])]

VScale(c, v) == [i \in 1..Len(v) |-> Mul(c, v[i])]

RECURSIVE DotUpTo(_, _, _)
DotUpTo(u, v, k) ==
    IF k = 0 THEN Zero ELSE Add(DotUpTo(u, v, k - 1), Mul(u[k], v[k]))

Dot(u, v) == DotUpTo(u, v, Len(u))

MatVec(A, v) == [i \in 1..Len(A) |-> Dot(A[i], v)]

Norm(v) == Sqrt(Dot(v, v))

---------------------------------------------------------------------------
(* FR.__init__ (lines 50-109) *)

LineSearchKinds == {"Armijo", "Wolfe", "Strong_Wolfe", "None"}

Between(lo, x, hi) == Lt(lo, x) /\ Lt(x, hi)

IsWhole(x) == x.d = 1

BadEps(a) == Lt(a.eps, Zero)

BadLineSearch(a) == a.line_search \notin LineSearchKinds

BadC1(a) == ~Between(Zero, a.c1, Q(1, 2))

BadC2(a) == ~Between(a.c1, a.c2, One)

BadLr(a) == Lt(a.lr, Zero)

BadRho(a) == ~Between(Zero, a.rho, One)

BadEta(a) == ~Lt(One, a.eta)

BadAmax(a) == ~Lt(Zero, a.amax)

BadMaxLs(a) == ~IsWhole(a.max_ls) \/ Le(a.max_ls, Zero)

Validate(a) ==
    IF BadEps(a) \/ BadLineSearch(a) \/ BadC1(a) \/ BadC2(a) \/ BadLr(a)
       \/ BadRho(a) \/ BadEta(a) \/ BadAmax(a) \/ BadMaxLs(a)
    THEN "ValueError" ELSE "ok"

Warns(a) == ~BadEps(a) /\ a.line_search = "None"

DefaultArgs ==
    [eps |-> Q(1, 1000), line_search |-> "Armijo", c1 |-> Q(1, 10000),
     c2 |-> Q(2, 5), lr |-> One, rho |-> Q(1, 2), eta |-> Int2Q(5),
     amax |-> Q(3, 5), max_ls |-> Int2Q(10)]

NoArgs == [DefaultArgs EXCEPT !.line_search = "unset"]

---------------------------------------------------------------------------
(* Optional values: <<>> is Python's None / a missing key, <<v>> a value.  *)

None == <<>>

Some(v) == <<v>>

(* self.state[p]: a dict with keys g, d, index, step, beta, A.  `has` says *)
(* whether self.state (a defaultdict) holds an entry for p at all.         *)
StateKeys == {"g", "d", "index", "step", "beta", "A"}

NoState ==
    [has |-> FALSE, g |-> None, d |-> None, index |-> None, step |-> None,
     beta |-> None, A |-> None]

StateLen(st) == Cardinality({k \in StateKeys : st[k] # None})

Has(st, key) == st[key] # None

Get(st, key) == st[key][1]

Put(st, key, v) == [st EXCEPT ![key] = Some(v), !.has = TRUE]

---------------------------------------------------------------------------
(* Iteration order of `for group in self.param_groups: for p in group['params']` *)

RECURSIVE Flatten(_)
Flatten(gs) == IF gs = <<>> THEN <<>> ELSE Head(gs) \o Flatten(Tail(gs))

Order == Flatten(param_groups)

Params == {Order[k] : k \in 1..Len(Order)}

Pos(i) == CHOOSE k \in 1..Len(Order) : Order[k] = i

---------------------------------------------------------------------------
(* FR.Exact (lines 122-129) *)

Exact(A, d_p, d) ==
    LET rdotr == Dot(VNeg(d), d_p)
        z     == MatVec(A, d)
    IN  Div(rdotr, Dot(d, z))

---------------------------------------------------------------------------
(* FR.step (lines 131-215).  The loop body is ProcessParam; acc carries    *)
(* the tensors, the state dicts and the control outcome of the call:       *)
(*   ctl = "run"      the loop is still running                            *)
(*   ctl = "return"   `return loss` was executed inside the loop           *)
(*   ctl = "KeyError" a state[...] lookup raised                           *)
(* found, searched, curved and kArg record what the call did.              *)
(*                                                                         *)
(* ConvergedFlipped, ContinueFromInit, ContinueFromUpdate, TouchThenSkip   *)
(* and NextStepSame are faulty variants of the definition that follows     *)
(* each of them (a flipped comparison, `continue` in place of `return`, a  *)
(* state lookup before the gradient test, a forgotten increment); the      *)
(* properties below are required to tell them from the code.               *)

ConvergedFlipped(g, eps) == Lt(eps, Norm(g))

Converged(g, eps) == Lt(Norm(g), eps)

ContinueFromInit(acc) == acc

ReturnFromInit(acc) == [acc EXCEPT !.ctl = "return"]

ContinueFromUpdate(acc) == acc

ReturnFromUpdate(acc) == [acc EXCEPT !.ctl = "return"]

Raise(acc) == [acc EXCEPT !.ctl = "KeyError"]

TouchThenSkip(acc, i) == [acc EXCEPT !.state[i].has = TRUE]

SkipParam(acc, i) == acc

NextStepSame(k) == k

NextStep(k) == k + 1

ApplyUpdate(acc, i, st, alpha) ==
    [acc EXCEPT !.state[i] = st,
                !.p[i] = VAdd(acc.p[i], VScale(alpha, Get(st, "d"))),
                !.nupd[i] = @ + 1]

LineSearch(acc0, i, st, d_p, alpha, curv) ==
    LET acc  == [acc0 EXCEPT !.state[i] = st, !.searched = @ \cup {i}]
        kind == defaults.line_search
    IN  CASE kind = "None" ->
               IF ~Has(st, "index") THEN Raise(acc)
               ELSE IF Get(st, "index")
               THEN LET st1 == Put(st, "A", curv)
                    IN  ApplyUpdate([acc EXCEPT !.curved = @ \cup {i}], i, st1,
                                    Exact(Get(st1, "A"), d_p, Get(st1, "d")))
               ELSE IF ~Has(st, "A") THEN Raise(acc)
               ELSE ApplyUpdate(acc, i, st, Exact(Get(st, "A"), d_p, Get(st, "d")))
          [] kind = "Armijo" -> ApplyUpdate(acc, i, st, alpha)
          [] kind = "Wolfe" ->
               IF ~Has(st, "step") THEN Raise(acc)
               ELSE LET k == Get(st, "step")
                    IN  ApplyUpdate([acc EXCEPT !.kArg[i] = Some(k)], i,
                                    Put(st, "step", NextStep(k)), alpha)
          [] kind = "Strong_Wolfe" -> ApplyUpdate(acc, i, st, alpha)

InitBranch(acc, i, st, d_p, alpha, curv) ==
    LET st1 == Put(st, "g", d_p)
    IN  IF Converged(Get(st1, "g"), defaults.eps)
        THEN ReturnFromInit([acc EXCEPT !.state[i] = st1, !.found = @ \cup {i}])
        ELSE LET st2 == Put(Put(Put(st1, "d", VNeg(d_p)), "index", TRUE), "step", 0)
             IN  LineSearch(acc, i, st2, d_p, alpha, curv)

UpdateBranch(acc, i, st, d_p, alpha, curv) ==
    IF ~Has(st, "g") THEN Raise(acc)
    ELSE LET st1 == Put(st, "beta", Div(Norm(d_p), Norm(Get(st, "g"))))
             st2 == Put(st1, "g", d_p)
         IN  IF Converged(Get(st2, "g"), defaults.eps)
             THEN ReturnFromUpdate([acc EXCEPT !.state[i] = st2, !.found = @ \cup {i}])
             ELSE IF ~Has(st2, "d") THEN Raise([acc EXCEPT !.state[i] = st2])
             ELSE LET st3 == Put(st2, "d",
                                 VAdd(VNeg(Get(st2, "g")),
                                      VScale(Get(st2, "beta"), Get(st2, "d"))))
                      st4 == Put(st3, "index", FALSE)
                  IN  LineSearch(acc, i, st4, d_p, alpha, curv)

ProcessParam(acc, i, grad, alpha, curv) ==
    IF grad = None THEN SkipParam(acc, i)
    ELSE LET d_p == grad[1]
             st  == acc.state[i]
         IN  IF StateLen(st) = 0
             THEN InitBranch([acc EXCEPT !.reached = @ \cup {i}], i, st, d_p, alpha, curv)
             ELSE UpdateBranch([acc EXCEPT !.reached = @ \cup {i}], i, st, d_p, alpha, curv)

RECURSIVE Loop(_, _, _, _, _)
Loop(acc, k, grads, alphas, curvs) ==
    IF k > Len(Order) \/ acc.ctl # "run" THEN acc
    ELSE Loop(ProcessParam(acc, Order[k], grads[Order[k]], alphas[Order[k]],
                           curvs[Order[k]]),
              k + 1, grads, alphas, curvs)

StartAcc ==
    [p |-> p, state |-> state, nupd |-> nupd, ctl |-> "run", found |-> {},
     reached |-> {}, searched |-> {}, curved |-> {},
     kArg |-> [i \in Params |-> None]]

(* step(closure): loss is the closure's value (None without a closure);    *)
(* grads[i] is p.grad of parameter i when the loop reaches it.             *)
DoStep(loss, grads, alphas, curvs) ==
    \E acc \in {Loop(StartAcc, 1, grads, alphas, curvs)} :
        /\ p' = acc.p
        /\ state' = acc.state
        /\ nupd' = acc.nupd
        /\ calls' = calls + 1
        /\ last' = [loss |-> loss, grads |-> grads,
                    outcome |-> IF acc.ctl = "KeyError" THEN "KeyError" ELSE "returned",
                    ret |-> IF acc.ctl = "KeyError" THEN None ELSE loss,
                    early |-> acc.ctl = "return",
                    found |-> acc.found, reached |-> acc.reached,
                    searched |-> acc.searched, curved |-> acc.curved,
                    kArg |-> acc.kArg, alphas |-> alphas,
                    seen |-> last.seen \cup
                             {i \in Params : grads[i] # None
                                             /\ ~Lt(Norm(grads[i][1]), defaults.eps)},
                    pre_seen |-> last.seen,
                    pre_p |-> p, pre_state |-> state, pre_nupd |-> nupd]
        /\ UNCHANGED <<ctor, warned, args, defaults, param_groups, objective>>

NoCall ==
    [loss |-> None, grads |-> <<>>, outcome |-> "none", ret |-> None,
     early |-> FALSE, found |-> {}, reached |-> {}, searched |-> {},
     curved |-> {}, kArg |-> <<>>, alphas |-> <<>>, seen |-> {}, pre_seen |-> {},
     pre_p |-> <<>>, pre_state |-> <<>>, pre_nupd |-> <<>>]

---------------------------------------------------------------------------
(* Constructor calls: FR(params, eps, line_search, c1, c2, lr, rho, eta,   *)
(* amax, max_ls) with each argument drawn from values inside, outside and  *)
(* on the boundary of its range.                                           *)

EpsArgs == {Int2Q(-1), Zero, Q(1, 1000)}

LineSearchArgs == LineSearchKinds \cup {"Newton"}

C1Args == {Zero, Q(1, 10000), Q(1, 2)}

C2Args == {Q(1, 10000), Q(2, 5), One}

LrArgs == {Int2Q(-1), Zero, One}

RhoArgs == {Zero, Q(1, 2), One}

EtaArgs == {One, Int2Q(5)}

AmaxArgs == {Zero, Q(3, 5)}

MaxLsArgs == {Zero, Q(5, 2), Int2Q(10)}

CtorArgs ==
    [eps : EpsArgs, line_search : LineSearchArgs, c1 : C1Args, c2 : C2Args,
     lr : LrArgs, rho : RhoArgs, eta : EtaArgs, amax : AmaxArgs,
     max_ls : MaxLsArgs]

Blank ==
    /\ param_groups = <<>>
    /\ p = <<>>
    /\ state = <<>>
    /\ objective = <<>>
    /\ calls = 0
    /\ nupd = <<>>
    /\ last = NoCall

InitCtor ==
    /\ ctor = "none"
    /\ warned = FALSE
    /\ args = NoArgs
    /\ defaults = NoArgs
    /\ Blank

Construct ==
    /\ ctor = "none"
    /\ \E a \in CtorArgs :
          /\ args' = a
          /\ ctor' = Validate(a)
          /\ warned' = Warns(a)
          /\ defaults' = IF Validate(a) = "ok" THEN a ELSE defaults
    /\ UNCHANGED <<param_groups, p, state, objective, calls, nupd, last>>

NextCtor == Construct

SpecCtor == InitCtor /\ [][NextCtor]_vars

---------------------------------------------------------------------------
(* step() driven by an opaque closure and opaque line searches: three      *)
(* parameters in two groups; the gradients, the loss, the step lengths and *)
(* the curvature operator are chosen by the environment.                   *)

StepConfigs ==
    {<<Int2Q(2), "Armijo">>, <<Int2Q(2), "Wolfe">>, <<Int2Q(2), "Strong_Wolfe">>,
     <<Int2Q(2), "None">>, <<Zero, "Armijo">>}

Groups == << <<1, 2>>, <<3>> >>

StartPoint == Vec(<<1, -2>>)

(* p.grad of a parameter when the loop reaches it: undefined, of norm      *)
(* below eps = 2 (zero for the first parameter), or of norm at least 2     *)
(* (exactly 2 for the second parameter).                                   *)
SmallGrad == <<Vec(<<0, 0>>), Vec(<<0, 1>>), Vec(<<0, 1>>)>>

BigGrad == <<Vec(<<3, 4>>), Vec(<<0, 2>>), Vec(<<3, 4>>)>>

GradChoices(i) == {None, Some(SmallGrad[i]), Some(BigGrad[i])}

GradInputs == {gr \in [Params -> UNION {GradChoices(i) : i \in Params}] :
                 \A i \in Params : gr[i] \in GradChoices(i)}

Alphas == {Q(1, 2)}

Curvs == {Mat(<<<<1, 0>>, <<0, 2>>>>)}

(* The closure returns a different loss in every call. *)
Losses(c) == {Some(Int2Q(c + 1))}

Init ==
    /\ ctor = "ok"
    /\ \E c \in StepConfigs :
          defaults = [DefaultArgs EXCEPT !.eps = c[1], !.line_search = c[2]]
    /\ Validate(defaults) = "ok"
    /\ args = defaults
    /\ warned = Warns(defaults)
    /\ param_groups = Groups
    /\ p = [i \in Params |-> StartPoint]
    /\ state = [i \in Params |-> NoState]
    /\ objective = <<>>
    /\ calls = 0
    /\ nupd = [i \in Params |-> 0]
    /\ last = NoCall

(* Without a closure the Armijo, Wolfe and Strong_Wolfe collaborators      *)
(* cannot evaluate the objective, so a call without one is made only under *)
(* line_search = 'None'.                                                   *)
Step ==
    /\ ctor = "ok"
    /\ objective = <<>>
    /\ calls < MaxCalls
    /\ \E loss \in Losses(calls) \cup (IF defaults.line_search = "None" THEN {None} ELSE {}),
          grads \in GradInputs,
          alphas \in [Params -> Alphas],
          curv \in Curvs :
             DoStep(loss, grads, alphas, [i \in Params |-> curv])

Next == Step

Spec == Init /\ [][Next]_vars

---------------------------------------------------------------------------
(* step() on a pure quadratic f(x) = 1/2 x'Ax with line_search = 'None':   *)
(* one parameter of dimensionality n = Len(A); the closure computes the    *)
(* loss and the gradient Ax, _get_A returns A.                             *)

QuadObjectives ==
    {Mat(<<<<1>>>>), Mat(<<<<2>>>>), Mat(<<<<3>>>>),
     Mat(<<<<1, 0>>, <<0, 2>>>>), Mat(<<<<2, 0>>, <<0, 1>>>>),
     Mat(<<<<2, 1>>, <<1, 2>>>>)}

QuadCoords == -4..4

QuadStarts(A) ==
    IF Len(A) = 1 THEN {Vec(<<x>>) : x \in QuadCoords}
    ELSE {Vec(<<x, y>>) : x \in QuadCoords, y \in QuadCoords}

QuadGrad(A, x) == MatVec(A, x)

QuadLoss(A, x) == Mul(Q(1, 2), Dot(x, MatVec(A, x)))

ExactNorm(v) == LET s == Dot(v, v) IN IsSquare(s.n) /\ IsSquare(s.d)

InitQuad ==
    /\ ctor = "ok"
    /\ defaults = [DefaultArgs EXCEPT !.line_search = "None"]
    /\ Validate(defaults) = "ok"
    /\ args = defaults
    /\ warned = Warns(defaults)
    /\ param_groups = << <<1>> >>
    /\ \E A \in QuadObjectives :
          /\ objective = A
          /\ \E x \in QuadStarts(A) :
                /\ ExactNorm(QuadGrad(A, x))
                /\ p = [i \in {1} |-> x]
    /\ state = [i \in Params |-> NoState]
    /\ calls = 0
    /\ nupd = [i \in Params |-> 0]
    /\ last = NoCall

StepQuad ==
    /\ ctor = "ok"
    /\ objective # <<>>
    /\ calls < MaxQuadCalls
    /\ DoStep(Some(QuadLoss(objective, p[1])),
              [i \in Params |-> Some(QuadGrad(objective, p[i]))],
              [i \in Params |-> One],
              [i \in Params |-> objective])

NextQuad == StepQuad

SpecQuad == InitQuad /\ [][NextQuad]_vars

---------------------------------------------------------------------------
(* Properties.  `last` describes the most recent step() call: its inputs,  *)
(* its result, and the tensors and state dicts as they were before it.     *)

Called == last.outcome # "none"

Grad(i) == last.grads[i][1]

HasGrad(i) == last.grads[i] # None

Below(i) == HasGrad(i) /\ Lt(Norm(Grad(i)), defaults.eps)

AtLeast(i) == HasGrad(i) /\ ~Lt(Norm(Grad(i)), defaults.eps)

TookUpdateBranch(i) == i \in last.reached /\ StateLen(last.pre_state[i]) > 0

(* The step length the configured policy produced for parameter i. *)
AlphaUsed(i) ==
    IF defaults.line_search = "None"
    THEN Exact(Get(state[i], "A"), Grad(i), Get(state[i], "d"))
    ELSE last.alphas[i]

(* The documented ranges of the nine constructor fields. *)
InRange(a) ==
    /\ Lt(Zero, a.eps)
    /\ a.line_search \in {"None", "Armijo", "Wolfe", "Strong_Wolfe"}
    /\ Lt(Zero, a.c1) /\ Lt(a.c1, Q(1, 2))
    /\ Lt(a.c1, a.c2) /\ Lt(a.c2, One)
    /\ Le(Zero, a.lr)
    /\ Lt(Zero, a.rho) /\ Lt(a.rho, One)
    /\ Lt(One, a.eta)
    /\ Lt(Zero, a.amax)
    /\ a.max_ls.d = 1 /\ a.max_ls.n >= 1

(* C1: construction raises whenever any of the nine fields is outside its  *)
(* documented range (open-interval boundaries included, eps = 0 among      *)
(* them) and succeeds only when every field is in range.                   *)
C1_ConfigValidation ==
    ctor # "none" => (ctor = "ok" <=> InRange(args))

(* C2 as stated: in a call in which some parameter's freshly stored        *)
(* gradient has norm below eps, no parameter at all is updated, those      *)
(* preceding the converged parameter included.                             *)
C2_NoParameterUpdated ==
    last.found # {} => \A i \in Params : p[i] = last.pre_p[i]

(* C2 amended: in such a call the loss is returned, and neither the        *)
(* converged parameter nor any parameter after it in iteration order is    *)
(* updated; a parameter before it that reached its line search has already *)
(* been moved by alpha times its direction.                                *)
C2_NoUpdateFromConverged ==
    \A c \in last.found :
        /\ last.outcome = "returned"
        /\ last.ret = last.loss
        /\ \A i \in Params :
              /\ Pos(i) >= Pos(c) => p[i] = last.pre_p[i]
              /\ (Pos(i) < Pos(c) /\ i \in last.searched) =>
                    p[i] = VAdd(last.pre_p[i], VScale(AlphaUsed(i), Get(state[i], "d")))

C2_Witness ==
    \E c \in last.found : \E i \in Params :
        /\ Pos(i) < Pos(c)
        /\ i \in last.searched
        /\ p[i] # last.pre_p[i]
        /\ TookUpdateBranch(c)

(* C3: in any call, a parameter processed with a defined gradient of norm  *)
(* below eps keeps its tensor, and the call returns the loss its own       *)
(* closure computed.                                                       *)
C3_ConvergenceShortCircuit ==
    \A i \in Params :
        (Called /\ i \in last.reached /\ Below(i)) =>
            /\ p[i] = last.pre_p[i]
            /\ last.outcome = "returned"
            /\ last.ret = last.loss

C3_Witness ==
    \E i \in Params :
        /\ calls >= 2
        /\ i \in last.reached /\ Below(i)
        /\ Has(last.pre_state[i], "d")
        /\ last.ret = last.loss /\ last.loss # None
        /\ Grad(i) # Vec(<<0, 0>>)

(* C4: no step() call raises; the Update branch always finds a stored      *)
(* direction (and iteration count, and curvature operator).                *)
C4_NoStepRaises == last.outcome # "KeyError"

(* C5: a parameter whose gradient is undefined in a call keeps its tensor  *)
(* and its state (none is created, an existing one keeps every field), and *)
(* neither a line search nor the curvature oracle runs for it.             *)
C5_SkipOnMissingGradient ==
    \A i \in Params :
        (Called /\ ~HasGrad(i)) =>
            /\ p[i] = last.pre_p[i]
            /\ state[i] = last.pre_state[i]
            /\ nupd[i] = last.pre_nupd[i]
            /\ i \notin last.searched
            /\ i \notin last.curved

C5_Witness ==
    \E i, j, k \in Params :
        /\ Called /\ ~HasGrad(i) /\ ~HasGrad(j)
        /\ Has(state[i], "d")
        /\ ~state[j].has
        /\ Pos(k) < Pos(i) /\ p[k] # last.pre_p[k]
        /\ last.outcome = "returned"

(* C6: a call that takes the Update branch for a parameter with new        *)
(* gradient g2, norm at least eps, leaves direction -g2 + (|g2|/|g1|) d1   *)
(* and gradient g2, where g1 and d1 are the gradient and the direction     *)
(* stored before the call.                                                 *)
C6_FletcherReevesDirection ==
    \A i \in Params :
        (Called /\ TookUpdateBranch(i) /\ AtLeast(i)) =>
            /\ Has(last.pre_state[i], "g")
            /\ Has(last.pre_state[i], "d")
            /\ state[i].g = Some(Grad(i))
            /\ state[i].d =
                  Some(VAdd(VNeg(Grad(i)),
                            VScale(Div(Norm(Grad(i)), Norm(Get(last.pre_state[i], "g"))),
                                   Get(last.pre_state[i], "d"))))

(* C7: the first call in which a parameter has a defined gradient g of     *)
(* norm at least eps (and in which the loop reaches it) creates its state  *)
(* with direction -g, gradient g, isFirstIteration true and iteration      *)
(* count 0 when the step length is computed, and moves the parameter to    *)
(* p + alpha (-g).                                                         *)
C7_FirstIterationDirection ==
    \A i \in Params :
        (Called /\ i \in last.reached /\ AtLeast(i) /\ i \notin last.pre_seen) =>
            /\ last.outcome = "returned"
            /\ state[i].g = Some(Grad(i))
            /\ state[i].d = Some(VNeg(Grad(i)))
            /\ state[i].index = Some(TRUE)
            /\ state[i].step = Some(IF defaults.line_search = "Wolfe" THEN 1 ELSE 0)
            /\ (defaults.line_search = "Wolfe" => last.kArg[i] = Some(0))
            /\ i \in last.searched
            /\ p[i] = VAdd(last.pre_p[i], VScale(AlphaUsed(i), VNeg(Grad(i))))

(* C8: on a pure quadratic with line_search = 'None', the gradient norm is *)
(* below eps once n parameter updates have been made (n the                *)
(* dimensionality of the parameter).                                       *)
C8_FiniteTermination ==
    nupd[1] >= Len(objective) =>
        Lt(Norm(QuadGrad(objective, p[1])), defaults.eps)

(* C9: once a parameter's gradient norm is found below eps in a call,      *)
(* every parameter later in iteration order is skipped for that call: its  *)
(* tensor is not updated, no state is created for it, an existing state    *)
(* keeps every field.                                                      *)
C9_LaterParametersSkipped ==
    \A c \in last.found : \A i \in Params :
        Pos(i) > Pos(c) =>
            /\ p[i] = last.pre_p[i]
            /\ state[i] = last.pre_state[i]
            /\ i \notin last.reached

C9_Witness ==
    \E c \in last.found : \E i, j \in Params :
        /\ ~TookUpdateBranch(c)
        /\ Pos(c) < Pos(i) /\ Pos(i) < Pos(j)
        /\ AtLeast(i) /\ Has(state[i], "d")
        /\ AtLeast(j) /\ ~state[j].has

(* C10: iterationCount never decreases; under Wolfe each call that reaches *)
(* the line search for a parameter passes the count held before (0 the     *)
(* first time) and then adds exactly 1; calls that short-circuit or skip   *)
(* the parameter leave it alone; under the other policies it stays 0.      *)
C10_IterationCount ==
    \A i \in Params :
        Called =>
            LET pre  == last.pre_state[i]
                held == IF Has(pre, "step") THEN Get(pre, "step") ELSE 0
            IN  /\ Has(pre, "step") =>
                      Has(state[i], "step") /\ Get(state[i], "step") >= held
                /\ (defaults.line_search = "Wolfe" /\ i \in last.searched) =>
                      /\ last.kArg[i] = Some(held)
                      /\ held = last.pre_nupd[i]
                      /\ state[i].step = Some(held + 1)
                /\ i \notin last.searched => state[i].step = pre.step
                /\ (defaults.line_search # "Wolfe" /\ Has(state[i], "step")) =>
                      Get(state[i], "step") = 0 /\ last.kArg[i] = None

C10_Witness ==
    \E i, j \in Params :
        /\ defaults.line_search = "Wolfe"
        /\ i \in last.searched /\ last.kArg[i] = Some(1) /\ state[i].step = Some(2)
        /\ j \notin last.searched /\ state[j].step = Some(1)

=============================================================================
